---- MODULE Spec2Model ----
(***************************************************************************)
(* DataManager (src/data-manager.js): load/save of the main data and the   *)
(* two transaction logs over localStorage or window.electronAPI, the       *)
(* legacy-key migration, backup export/import and clearAllData.            *)
(*                                                                         *)
(* JavaScript values are records [kind, arr, obj]; stored strings are      *)
(* sequences of JSON tokens, written by Stringify and read back by Parse.  *)
(***************************************************************************)
EXTENDS Integers, Sequences, FiniteSets, TLC

VARIABLES
    env,          \* "electron" when window.electronAPI exists, else "browser"
    ls,           \* localStorage: key -> [present, text]
    host,         \* what the electronAPI main process holds
    defaultData,  \* DataManager.defaultData (a mutable object literal)
    last,         \* the most recent call: its argument and what it returned
    onlySavesImports  \* no call other than a save or an import was made yet

vars == <<env, ls, host, defaultData, last, onlySavesImports>>

\* How many elements callers may push onto arrays of a returned default.
MaxPush == 1

-----------------------------------------------------------------------------
(* JavaScript values *)

Required == {"products", "customers", "sellers"}
TxFields == {"customerTransactions", "supplierTransactions"}
Fields   == Required \cup TxFields \cup {"exportDate"}

\* Property order of the objects the module builds (lines 11-16, 195-200).
FieldOrder ==
    <<"products", "customers", "sellers",
      "customerTransactions", "supplierTransactions", "exportDate">>

\* Opaque records {id: n} held in the arrays.
Elems == {1, 2}

ElemTok == <<"{id:1}", "{id:2}">>

Undef   == [kind |-> "undefined", arr |-> <<>>]
NullF   == [kind |-> "null", arr |-> <<>>]
ZeroF   == [kind |-> "zero", arr |-> <<>>]
NumF    == [kind |-> "num", arr |-> <<>>]
StrF    == [kind |-> "str", arr |-> <<>>]
ArrF(s) == [kind |-> "arr", arr |-> s]

NoFields == [f \in Fields |-> Undef]

\* A top-level value: a primitive, an array, or an object of Fields.
Lift(v) == [kind |-> v.kind, arr |-> v.arr, obj |-> NoFields]
Lower(v) == [kind |-> v.kind, arr |-> v.arr]
UndefV  == Lift(Undef)
NullV   == Lift(NullF)
Arr(s)  == Lift(ArrF(s))
Obj(o)  == [kind |-> "obj", arr |-> <<>>, obj |-> o]

\* JavaScript truthiness of a value (used by `||`, `!x`, `if (x)`).
Truthy(v) == v.kind \notin {"undefined", "null", "zero"}

\* x.f for a value x: undefined on primitives and arrays.
Get(v, f) == IF v.kind = "obj" THEN v.obj[f] ELSE Undef

Dataset(p, c, s) ==
    Obj([f \in Fields |->
            IF f = "products" THEN ArrF(p)
            ELSE IF f = "customers" THEN ArrF(c)
            ELSE IF f = "sellers" THEN ArrF(s)
            ELSE Undef])

-----------------------------------------------------------------------------
(* JSON.stringify and JSON.parse over token sequences *)

RECURSIVE ElemToks(_)
ElemToks(s) ==
    IF s = <<>> THEN <<>>
    ELSE IF Len(s) = 1 THEN <<ElemTok[s[1]]>>
    ELSE <<ElemTok[s[1]], ",">> \o ElemToks(Tail(s))

StrFlat(v) ==
    CASE v.kind = "null" -> <<"null">>
      [] v.kind = "zero" -> <<"0">>
      [] v.kind = "num"  -> <<"5">>
      [] v.kind = "str"  -> <<"'s'">>
      [] v.kind = "arr"  -> <<"[">> \o ElemToks(v.arr) \o <<"]">>
      [] OTHER           -> <<"undefined">>

\* Members of an object from property i on; undefined properties are dropped.
RECURSIVE Members(_, _, _)
Members(o, i, first) ==
    IF i > Len(FieldOrder) THEN <<>>
    ELSE LET f == FieldOrder[i]
         IN  IF o[f].kind = "undefined" THEN Members(o, i + 1, first)
             ELSE (IF first THEN <<>> ELSE <<",">>)
                  \o <<f, ":">> \o StrFlat(o[f]) \o Members(o, i + 1, FALSE)

Stringify(v) ==
    IF v.kind = "obj" THEN <<"{">> \o Members(v.obj, 1, TRUE) \o <<"}">>
    ELSE StrFlat(Lower(v))

ElemOf(tok) == CHOOSE n \in Elems : ElemTok[n] = tok

IsElemTok(tok) == \E n \in Elems : ElemTok[n] = tok

\* element ("," element)*
ElemsOk(toks) ==
    /\ Len(toks) % 2 = 1
    /\ \A i \in 1..Len(toks) :
          IF i % 2 = 1 THEN IsElemTok(toks[i]) ELSE toks[i] = ","

ParseFail == [ok |-> FALSE, val |-> UndefV]

ParseFlat(toks) ==
    IF toks = <<"null">> THEN [ok |-> TRUE, val |-> NullV]
    ELSE IF toks = <<"0">> THEN [ok |-> TRUE, val |-> Lift(ZeroF)]
    ELSE IF toks = <<"5">> THEN [ok |-> TRUE, val |-> Lift(NumF)]
    ELSE IF toks = <<"'s'">> THEN [ok |-> TRUE, val |-> Lift(StrF)]
    ELSE IF Len(toks) >= 2 /\ toks[1] = "[" /\ toks[Len(toks)] = "]"
    THEN LET body == SubSeq(toks, 2, Len(toks) - 1)
         IN  IF body = <<>> THEN [ok |-> TRUE, val |-> Arr(<<>>)]
             ELSE IF ElemsOk(body)
             THEN [ok |-> TRUE,
                   val |-> Arr([i \in 1..((Len(body) + 1) \div 2) |->
                                   ElemOf(body[2 * i - 1])])]
             ELSE ParseFail
    ELSE ParseFail

\* name ":" value ("," name ":" value)* ; a repeated name keeps the last value.
RECURSIVE ParseMembers(_, _)
ParseMembers(toks, acc) ==
    IF Len(toks) < 3 \/ toks[1] \notin Fields \/ toks[2] # ":" THEN ParseFail
    ELSE LET closes == {j \in 3..Len(toks) : toks[j] = "]"}
             j == IF toks[3] # "[" THEN 3
                  ELSE IF closes = {} THEN 0
                  ELSE CHOOSE k \in closes : \A m \in closes : k <= m
         IN  IF j = 0 THEN ParseFail
             ELSE LET v == ParseFlat(SubSeq(toks, 3, j))
                      next == [acc EXCEPT ![toks[1]] = Lower(v.val)]
                  IN  IF ~v.ok THEN ParseFail
                      ELSE IF j = Len(toks) THEN [ok |-> TRUE, val |-> Obj(next)]
                      ELSE IF toks[j + 1] # "," THEN ParseFail
                      ELSE ParseMembers(SubSeq(toks, j + 2, Len(toks)), next)

Parse(toks) ==
    IF Len(toks) >= 2 /\ toks[1] = "{" /\ toks[Len(toks)] = "}"
    THEN IF Len(toks) = 2 THEN [ok |-> TRUE, val |-> Obj(NoFields)]
         ELSE ParseMembers(SubSeq(toks, 2, Len(toks) - 1), NoFields)
    ELSE ParseFlat(toks)

-----------------------------------------------------------------------------
(* localStorage and the electronAPI store *)

K_DATA == "data/perfectWoodData.json"
K_CUST == "data/customerTransactions.json"
K_SUPP == "data/supplierTransactions.json"
L_DATA == "perfectWoodData"
L_CUST == "customerTransactions"
L_SUPP == "supplierTransactions"

NewKeys    == {K_DATA, K_CUST, K_SUPP}
LegacyKeys == {L_DATA, L_CUST, L_SUPP}
Keys       == NewKeys \cup LegacyKeys

Absent  == [present |-> FALSE, text |-> <<>>]
Item(t) == [present |-> TRUE, text |-> t]

\* Truthiness of what getItem returns: null and "" are falsy.
ItemTruthy(it) == it.present /\ it.text # <<>>

setItem(s, k, t) == [s EXCEPT ![k] = Item(t)]
removeItem(s, k) == [s EXCEPT ![k] = Absent]

EmptyStore == [k \in Keys |-> Absent]

\* The main process keeps what saveData / saveTransactions last handed it and
\* loadData resolves {data, customerTransactions, supplierTransactions}.
EmptyHost ==
    [data |-> UndefV, customerTransactions |-> UndefV, supplierTransactions |-> UndefV]

HostSaveData(h, data) == [h EXCEPT !.data = data]

HostSaveTransactions(h, kind, tx) ==
    IF kind = "customer" THEN [h EXCEPT !.customerTransactions = tx]
    ELSE [h EXCEPT !.supplierTransactions = tx]

HostClearAllData(h) == EmptyHost

-----------------------------------------------------------------------------
(* DataManager *)

\* defaultData as the object literal is written.
DefaultDataLiteral ==
    [f \in Fields |-> IF f = "exportDate" THEN Undef ELSE ArrF(<<>>)]

\* Faulty variant: the migration moves each legacy key instead of copying it.
MoveKey(s, from, to) == removeItem(setItem(s, to, s[from].text), from)

\* localStorage.setItem(to, <what getItem(from) returned>), lines 49, 53, 57.
CopyKey(s, from, to) == setItem(s, to, s[from].text)

MigrateFaults == {"none", "getItem", "setData", "setCust", "setSupp"}

\* migrateFromLocalStorage with the named localStorage call throwing.
migrateFromLocalStorage(s, fault) ==
    IF fault = "getItem" THEN [ls |-> s, threw |-> TRUE]
    ELSE LET d  == ItemTruthy(s[L_DATA])
             c  == ItemTruthy(s[L_CUST])
             p  == ItemTruthy(s[L_SUPP])
             t1 == d /\ fault = "setData"
             s1 == IF d /\ ~t1 THEN CopyKey(s, L_DATA, K_DATA) ELSE s
             t2 == ~t1 /\ c /\ fault = "setCust"
             s2 == IF ~t1 /\ c /\ ~t2 THEN CopyKey(s1, L_CUST, K_CUST) ELSE s1
             t3 == ~t1 /\ ~t2 /\ p /\ fault = "setSupp"
             s3 == IF ~t1 /\ ~t2 /\ p /\ ~t3
                   THEN CopyKey(s2, L_SUPP, K_SUPP) ELSE s2
         IN  [ls |-> s3, threw |-> t1 \/ t2 \/ t3]

\* initialize: returns early under electron; every error is caught.
initialize(e, s, fault) ==
    IF e = "electron" THEN [ls |-> s, threw |-> FALSE]
    ELSE migrateFromLocalStorage(s, fault)

\* { ...this.defaultData }: a new object whose properties are the same arrays.
ShallowDefault(d) == [ret |-> Obj(d), alias |-> "shallow"]

\* loadData; fault: the backend call (electronAPI.loadData / getItem) throws.
loadData(e, s, h, d, fault) ==
    IF fault THEN ShallowDefault(d) @@ [caught |-> TRUE]
    ELSE IF e = "electron"
    THEN IF Truthy(h.data)
         THEN [ret |-> h.data, alias |-> "none", caught |-> FALSE]
         ELSE [ret |-> Obj(d), alias |-> "same", caught |-> FALSE]
    ELSE IF ItemTruthy(s[K_DATA])
    THEN LET p == Parse(s[K_DATA].text)
         IN  IF p.ok THEN [ret |-> p.val, alias |-> "none", caught |-> FALSE]
             ELSE ShallowDefault(d) @@ [caught |-> TRUE]
    ELSE ShallowDefault(d) @@ [caught |-> FALSE]

LoadTransactions(e, s, h, fault, key, field) ==
    IF fault THEN [ret |-> Arr(<<>>), caught |-> TRUE]
    ELSE IF e = "electron"
    THEN [ret |-> IF Truthy(h[field]) THEN h[field] ELSE Arr(<<>>), caught |-> FALSE]
    ELSE IF ItemTruthy(s[key])
    THEN LET p == Parse(s[key].text)
         IN  IF p.ok THEN [ret |-> p.val, caught |-> FALSE]
             ELSE [ret |-> Arr(<<>>), caught |-> TRUE]
    ELSE [ret |-> Arr(<<>>), caught |-> FALSE]

loadCustomerTransactions(e, s, h, fault) ==
    LoadTransactions(e, s, h, fault, K_CUST, "customerTransactions")

loadSupplierTransactions(e, s, h, fault) ==
    LoadTransactions(e, s, h, fault, K_SUPP, "supplierTransactions")

\* saveData; fault: electronAPI.saveData rejects / setItem throws.
saveData(e, s, h, data, fault) ==
    IF fault THEN [ls |-> s, host |-> h, ret |-> FALSE]
    ELSE IF e = "electron"
    THEN [ls |-> s, host |-> HostSaveData(h, data), ret |-> TRUE]
    ELSE [ls |-> setItem(s, K_DATA, Stringify(data)), host |-> h, ret |-> TRUE]

\* Faulty variant: the customer save writes the supplier log.
saveCustomerTransactionsToSupplier(e, s, h, tx, fault) ==
    IF fault THEN [ls |-> s, host |-> h, ret |-> FALSE]
    ELSE IF e = "electron"
    THEN [ls |-> s, host |-> HostSaveTransactions(h, "supplier", tx), ret |-> TRUE]
    ELSE [ls |-> setItem(s, K_SUPP, Stringify(tx)), host |-> h, ret |-> TRUE]

saveCustomerTransactions(e, s, h, tx, fault) ==
    IF fault THEN [ls |-> s, host |-> h, ret |-> FALSE]
    ELSE IF e = "electron"
    THEN [ls |-> s, host |-> HostSaveTransactions(h, "customer", tx), ret |-> TRUE]
    ELSE [ls |-> setItem(s, K_CUST, Stringify(tx)), host |-> h, ret |-> TRUE]

saveSupplierTransactions(e, s, h, tx, fault) ==
    IF fault THEN [ls |-> s, host |-> h, ret |-> FALSE]
    ELSE IF e = "electron"
    THEN [ls |-> s, host |-> HostSaveTransactions(h, "supplier", tx), ret |-> TRUE]
    ELSE [ls |-> setItem(s, K_SUPP, Stringify(tx)), host |-> h, ret |-> TRUE]

\* Faulty variant: the check forgets sellers.
ValidStructureNoSellers(o) ==
    Truthy(Get(o, "products")) /\ Truthy(Get(o, "customers"))

\* The check of line 230.
ValidStructure(o) ==
    Truthy(Get(o, "products")) /\ Truthy(Get(o, "customers")) /\ Truthy(Get(o, "sellers"))

OrEmpty(v) == IF Truthy(v) THEN v ELSE ArrF(<<>>)

\* The object lines 235-239 hand to saveData.
ImportedDataset(o) ==
    Obj([f \in Fields |-> IF f \in Required THEN OrEmpty(Get(o, f)) ELSE Undef])

\* Faulty variant: both logs are saved whatever the file holds.
ImportsLogAlways(o, f) == TRUE

\* Lines 241 and 245: a log is saved when the file's property is truthy.
ImportsLog(o, f) == Truthy(Get(o, f))

ImportFaults == {"none", "read", "saveData", "saveTransactions"}

\* importData, given p = JSON.parse(e.target.result) (line 227) as Parse
\* returns it; fault "read": reader.onerror fires; "saveData": the backend
\* call of saveData fails; "saveTransactions": that of each transaction save
\* fails. out is "true" or the message of the rejection; saved: every save
\* that ran returned true.
importData(e, s, h, p, fault) ==
    LET o == p.val
        r1 == saveData(e, s, h, ImportedDataset(o), fault = "saveData")
        c  == ImportsLog(o, "customerTransactions")
        r2 == IF c THEN saveCustomerTransactions(e, r1.ls, r1.host,
                            Lift(Get(o, "customerTransactions")), fault = "saveTransactions")
              ELSE r1
        u  == ImportsLog(o, "supplierTransactions")
        r3 == IF u THEN saveSupplierTransactions(e, r2.ls, r2.host,
                            Lift(Get(o, "supplierTransactions")), fault = "saveTransactions")
              ELSE r2
        rejected(msg) == [ls |-> s, host |-> h, out |-> msg, saved |-> FALSE]
    IN  IF fault = "read" THEN rejected("Error reading file")
        ELSE IF ~p.ok THEN rejected("SyntaxError")
        ELSE IF o.kind = "null" THEN rejected("TypeError")
        ELSE IF ~ValidStructure(o) THEN rejected("Invalid data structure")
        ELSE [ls |-> r3.ls, host |-> r3.host, out |-> "true",
              saved |-> r1.ret /\ (c => r2.ret) /\ (u => r3.ret)]

\* Faulty variant: the supplier log is not removed.
ClearedKeysNoSupplier == <<K_DATA, K_CUST>>

\* The keys lines 272-274 remove, in order.
ClearedKeys == <<K_DATA, K_CUST, K_SUPP>>

\* clearAllData; failAt = k: the k-th removeItem throws (any k > 0: the
\* electronAPI call rejects); 0: nothing fails.
clearAllData(e, s, h, failAt) ==
    IF e = "electron"
    THEN IF failAt > 0 THEN [ls |-> s, host |-> h, ret |-> FALSE]
         ELSE [ls |-> s, host |-> HostClearAllData(h), ret |-> TRUE]
    ELSE LET done == IF failAt = 0 THEN Len(ClearedKeys) ELSE failAt - 1
             gone == {ClearedKeys[i] : i \in 1..done}
         IN  [ls |-> [k \in Keys |-> IF k \in gone THEN removeItem(s, k)[k] ELSE s[k]],
              host |-> h, ret |-> failAt = 0]

\* The object of lines 195-200; spreading a primitive adds no property.
ExportObject(data, ct, st) ==
    Obj([f \in Fields |->
            IF f = "customerTransactions" THEN Lower(ct)
            ELSE IF f = "supplierTransactions" THEN Lower(st)
            ELSE IF f = "exportDate" THEN StrF
            ELSE Get(data, f)])

\* exportData; domFault: the Blob / anchor download throws.
exportData(e, s, h, d, domFault) ==
    IF domFault THEN [ret |-> FALSE, file |-> <<>>]
    ELSE LET data == loadData(e, s, h, d, FALSE).ret
             ct   == loadCustomerTransactions(e, s, h, FALSE).ret
             st   == loadSupplierTransactions(e, s, h, FALSE).ret
         IN  [ret |-> TRUE, file |-> Stringify(ExportObject(data, ct, st))]

-----------------------------------------------------------------------------
(* Inputs *)

D1     == Dataset(<<2, 1>>, <<>>, <<1>>)
DEmpty == Dataset(<<>>, <<>>, <<>>)
DFile  == Dataset(<<1>>, <<>>, <<>>)
DOld   == Dataset(<<2>>, <<2>>, <<>>)

DataArgs == {D1, DEmpty}
TxArgs   == {Arr(<<>>), Arr(<<1, 2>>)}

WithTx(d, ct, st) ==
    Obj([d.obj EXCEPT !["customerTransactions"] = ct,
                      !["supplierTransactions"] = st])

Without(d, f) == Obj([d.obj EXCEPT ![f] = Undef])

CorruptText == <<"{", "products", ":">>

\* Backup files handed to importData.
Files ==
    { Stringify(DFile),
      Stringify(WithTx(DFile, ArrF(<<1, 2>>), Undef)),
      Stringify(ExportObject(DFile, Arr(<<>>), Arr(<<1, 2>>))),
      Stringify(Without(WithTx(DFile, ArrF(<<>>), ArrF(<<1, 2>>)), "sellers")),
      CorruptText }

\* The legacy keys hold what an earlier version wrote; the fixed keys hold
\* nothing yet.
LegacyStore ==
    [EmptyStore EXCEPT ![L_DATA] = Item(Stringify(DOld)),
                       ![L_CUST] = Item(Stringify(Arr(<<2>>))),
                       ![L_SUPP] = Item(<<>>)]

\* No legacy keys; the fixed keys hold text that is no dataset or no JSON.
DamagedStore ==
    [EmptyStore EXCEPT ![K_DATA] = Item(CorruptText),
                       ![K_CUST] = Item(<<"null">>)]

InitStores == {LegacyStore, DamagedStore}

\* What the main process may hold when the window opens.
InitHosts ==
    { [data |-> Lift(NumF), customerTransactions |-> Obj(NoFields),
       supplierTransactions |-> NullV] }

\* What callers push onto the arrays of a returned object. products,
\* customers and sellers are shared with defaultData in the same way.
PushFields == {"products"}
PushElems  == {1}

-----------------------------------------------------------------------------
(* State machine *)

\* A call: op, its argument (arg: a value, file: a text), what it returned
\* (out: "value" with ret, "true", "false", "void" or a rejection's message),
\* fault: a backend call failed in it, caught: it caught an error,
\* alias: how ret shares structure with defaultData.
Call(op, arg, file, out, ret, fault, caught, alias) ==
    [op |-> op, arg |-> arg, file |-> file, out |-> out, ret |-> ret,
     fault |-> fault, caught |-> caught, alias |-> alias, scope |-> FALSE]

Bool(b) == IF b THEN "true" ELSE "false"

Init ==
    /\ env \in {"browser", "electron"}
    /\ IF env = "browser"
       THEN ls \in InitStores /\ host = EmptyHost
       ELSE ls = EmptyStore /\ host \in InitHosts
    /\ defaultData = DefaultDataLiteral
    /\ last = Call("none", UndefV, <<>>, "void", UndefV, FALSE, FALSE, "none")
    /\ onlySavesImports = TRUE

Initialize ==
    \E fault \in MigrateFaults :
        LET r == initialize(env, ls, fault)
        IN  /\ ls' = r.ls
            /\ last' = Call("initialize", UndefV, <<>>, "void", UndefV, r.threw,
                            r.threw, "none")
            /\ onlySavesImports' = FALSE
            /\ UNCHANGED <<env, host, defaultData>>

LoadData ==
    \E fault \in BOOLEAN :
        LET r == loadData(env, ls, host, defaultData, fault)
        IN  /\ last' = Call("loadData", UndefV, <<>>, "value", r.ret, fault,
                            r.caught, r.alias)
            /\ onlySavesImports' = FALSE
            /\ UNCHANGED <<env, ls, host, defaultData>>

LoadCustomerTransactions ==
    \E fault \in BOOLEAN :
        LET r == loadCustomerTransactions(env, ls, host, fault)
        IN  /\ last' = Call("loadCustomerTransactions", UndefV, <<>>, "value", r.ret,
                            fault, r.caught, "none")
            /\ onlySavesImports' = FALSE
            /\ UNCHANGED <<env, ls, host, defaultData>>

LoadSupplierTransactions ==
    \E fault \in BOOLEAN :
        LET r == loadSupplierTransactions(env, ls, host, fault)
        IN  /\ last' = Call("loadSupplierTransactions", UndefV, <<>>, "value", r.ret,
                            fault, r.caught, "none")
            /\ onlySavesImports' = FALSE
            /\ UNCHANGED <<env, ls, host, defaultData>>

Pushed(d) ==
    Len(d["products"].arr) + Len(d["customers"].arr) + Len(d["sellers"].arr)

\* The caller pushes an element onto an array of the object loadData returned.
\* The arrays of a returned default are defaultData's own arrays.
MutateReturned ==
    /\ last.op = "loadData"
    /\ last.alias \in {"shallow", "same"}
    /\ Pushed(defaultData) < MaxPush
    /\ \E f \in PushFields, x \in PushElems :
        /\ defaultData' = [defaultData EXCEPT ![f] = ArrF(Append(@.arr, x))]
        /\ last' = Call("mutate", UndefV, <<>>, "void", UndefV, FALSE, FALSE, "none")
        /\ onlySavesImports' = FALSE
        /\ UNCHANGED <<env, ls, host>>

SaveData ==
    \E data \in DataArgs, fault \in BOOLEAN :
        LET r == saveData(env, ls, host, data, fault)
        IN  /\ ls' = r.ls
            /\ host' = r.host
            /\ last' = Call("saveData", data, <<>>, Bool(r.ret), UndefV, fault,
                            fault, "none")
            /\ UNCHANGED <<env, defaultData, onlySavesImports>>

SaveCustomerTransactions ==
    \E tx \in TxArgs, fault \in BOOLEAN :
        LET r == saveCustomerTransactions(env, ls, host, tx, fault)
        IN  /\ ls' = r.ls
            /\ host' = r.host
            /\ last' = Call("saveCustomerTransactions", tx, <<>>, Bool(r.ret), UndefV,
                            fault, fault, "none")
            /\ UNCHANGED <<env, defaultData, onlySavesImports>>

SaveSupplierTransactions ==
    \E tx \in TxArgs, fault \in BOOLEAN :
        LET r == saveSupplierTransactions(env, ls, host, tx, fault)
        IN  /\ ls' = r.ls
            /\ host' = r.host
            /\ last' = Call("saveSupplierTransactions", tx, <<>>, Bool(r.ret), UndefV,
                            fault, fault, "none")
            /\ UNCHANGED <<env, defaultData, onlySavesImports>>

ExportData ==
    \E domFault \in BOOLEAN :
        LET r == exportData(env, ls, host, defaultData, domFault)
        IN  /\ last' = Call("exportData", UndefV, r.file, Bool(r.ret), UndefV, FALSE,
                            domFault, "none")
            /\ onlySavesImports' = FALSE
            /\ UNCHANGED <<env, ls, host, defaultData>>

\* arg is what JSON.parse made of the file; an unreadable file shows nothing.
ImportData ==
    \E file \in Files :
        LET p == Parse(file)
        IN  \E fault \in ImportFaults :
                LET r == importData(env, ls, host, p, fault)
                    read == fault # "read"
                IN  /\ ls' = r.ls
                    /\ host' = r.host
                    /\ last' = Call("importData",
                                    IF read /\ p.ok THEN p.val ELSE UndefV,
                                    IF read THEN file ELSE <<>>, r.out, UndefV,
                                    ~read \/ (r.out = "true" /\ ~r.saved),
                                    r.out # "true", "none")
                    /\ UNCHANGED <<env, defaultData, onlySavesImports>>

ClearAllData ==
    \E failAt \in 0..Len(ClearedKeys) :
        LET r == clearAllData(env, ls, host, failAt)
        IN  /\ ls' = r.ls
            /\ host' = r.host
            /\ last' = [Call("clearAllData", UndefV, <<>>, Bool(r.ret), UndefV,
                             failAt > 0, failAt > 0, "none")
                          EXCEPT !.scope = onlySavesImports]
            /\ onlySavesImports' = FALSE
            /\ UNCHANGED <<env, defaultData>>

Next ==
    \/ Initialize
    \/ LoadData
    \/ LoadCustomerTransactions
    \/ LoadSupplierTransactions
    \/ MutateReturned
    \/ SaveData
    \/ SaveCustomerTransactions
    \/ SaveSupplierTransactions
    \/ ExportData
    \/ ImportData
    \/ ClearAllData

Spec == Init /\ [][Next]_vars

-----------------------------------------------------------------------------
(* Properties *)

\* What each load returns in the current state when no backend call fails.
NowData == loadData(env, ls, host, defaultData, FALSE).ret
NowCust == loadCustomerTransactions(env, ls, host, FALSE).ret
NowSupp == loadSupplierTransactions(env, ls, host, FALSE).ret

\* The same in the state a step leads to.
NextData == loadData(env', ls', host', defaultData', FALSE).ret
NextCust == loadCustomerTransactions(env', ls', host', FALSE).ret
NextSupp == loadSupplierTransactions(env', ls', host', FALSE).ret

\* The backend holds main data (the tests of lines 69 and 74).
HasData == IF env = "electron" THEN Truthy(host.data) ELSE ItemTruthy(ls[K_DATA])
HasCust ==
    IF env = "electron" THEN Truthy(host.customerTransactions)
    ELSE ItemTruthy(ls[K_CUST])
HasSupp ==
    IF env = "electron" THEN Truthy(host.supplierTransactions)
    ELSE ItemTruthy(ls[K_SUPP])

\* The Default Dataset: empty products, customers, sellers and the two
\* empty logs of the defaultData literal.
DefaultDataset == Obj(DefaultDataLiteral)

IsSeq(v) == v.kind = "arr"
IsDataset(v) == v.kind = "obj" /\ \A f \in Required : v.obj[f].kind = "arr"

LoadOps == {"loadData", "loadCustomerTransactions", "loadSupplierTransactions"}
SaveOps == {"saveData", "saveCustomerTransactions", "saveSupplierTransactions"}

\* C1: a save that returned true followed by the matching load, with no
\* backend call failing in the load, yields the saved value: saveData(D)
\* then loadData() yields D, and each transactions save (the empty sequence
\* included) then its load yields the saved sequence, in both backends.
C1_RoundTrip ==
    [][ /\ (last.op = "saveData" /\ last.out = "true"
            /\ last'.op = "loadData" /\ ~last'.fault)
           => last'.ret = last.arg
        /\ (last.op = "saveCustomerTransactions" /\ last.out = "true"
            /\ last'.op = "loadCustomerTransactions" /\ ~last'.fault)
           => last'.ret = last.arg
        /\ (last.op = "saveSupplierTransactions" /\ last.out = "true"
            /\ last'.op = "loadSupplierTransactions" /\ ~last'.fault)
           => last'.ret = last.arg ]_vars

\* The empty sequence was saved over a damaged browser key and loads back.
C1_Witness ==
    /\ env = "browser"
    /\ last.op = "saveCustomerTransactions" /\ last.out = "true"
    /\ last.arg = Arr(<<>>)
    /\ NowCust = Arr(<<>>)
    /\ ls[K_CUST].text = <<"[", "]">>
    /\ ls[K_DATA].text = Stringify(D1)

\* What a call that is no saveData, importData or clearAllData must leave alone.
KeepsDataOps ==
    LoadOps \cup {"initialize", "saveCustomerTransactions",
                  "saveSupplierTransactions", "exportData"}
KeepsCustOps ==
    LoadOps \cup {"initialize", "saveData", "saveSupplierTransactions", "exportData"}
KeepsSuppOps ==
    LoadOps \cup {"initialize", "saveData", "saveCustomerTransactions", "exportData"}

\* C2: once a save has stored D, every call other than a saveData, an
\* importData or a clearAllData leaves loadData() returning D (initialize
\* included, also when the legacy keys are populated); the same for each
\* transaction log and its own save.
C2_SavedValuePersists ==
    [][ /\ (last'.op \in KeepsDataOps /\ HasData /\ NowData \in DataArgs)
           => NextData = NowData
        /\ (last'.op \in KeepsCustOps /\ HasCust /\ NowCust \in TxArgs)
           => NextCust = NowCust
        /\ (last'.op \in KeepsSuppOps /\ HasSupp /\ NowSupp \in TxArgs)
           => NextSupp = NowSupp ]_vars

\* C3: loadData() always returns an object with products, customers and
\* sellers sequences, and each transactions load returns a sequence.
C3_LoadsWellFormed ==
    /\ last.op = "loadData" => IsDataset(last.ret)
    /\ last.op \in {"loadCustomerTransactions", "loadSupplierTransactions"}
       => IsSeq(last.ret)

\* C4: no load, save or clear lets an error out: a load that caught one
\* returns the Default Dataset (loadData) or the empty sequence (the
\* transaction loads), and a save or clear whose backend call failed
\* returns false.
C4_ErrorsYieldDefaults ==
    /\ (last.op = "loadData" /\ last.caught)
       => (last.out = "value" /\ last.ret = DefaultDataset)
    /\ (last.op \in {"loadCustomerTransactions", "loadSupplierTransactions"}
        /\ last.caught)
       => (last.out = "value" /\ last.ret = Arr(<<>>))
    /\ (last.op \in SaveOps \cup {"clearAllData"} /\ last.fault)
       => last.out = "false"

\* The object parsed from the file lacks one of products, customers, sellers.
LacksRequired(o) ==
    o.kind = "obj" /\ \E f \in Required : o.obj[f].kind = "undefined"

\* C5: importData of a file whose object lacks products, customers or
\* sellers rejects with "Invalid data structure" and writes nothing: the
\* fixed keys and the host's store are as before the call, whatever
\* transaction fields the object has.
C5_InvalidImportWritesNothing ==
    [][ (last'.op = "importData" /\ LacksRequired(last'.arg))
        => /\ last'.out = "Invalid data structure"
           /\ ls' = ls
           /\ host' = host ]_vars

\* The file without sellers, carrying both logs, was rejected over a backend
\* that holds a customer log.
C5_Witness ==
    /\ last.op = "importData"
    /\ LacksRequired(last.arg)
    /\ Truthy(Get(last.arg, "customerTransactions"))
    /\ last.out = "Invalid data structure"
    /\ HasCust /\ NowCust = Arr(<<1, 2>>)

\* A backup object as the file format describes it: the three arrays, and
\* each log an array or absent.
ValidBackup(o) ==
    IsDataset(o) /\ \A f \in TxFields : o.obj[f].kind \in {"arr", "undefined"}

Has(o, f) == o.obj[f].kind # "undefined"

\* products, customers and sellers of the object, and nothing else.
ThreeFields(o) ==
    Dataset(Get(o, "products").arr, Get(o, "customers").arr, Get(o, "sellers").arr)

\* C6: importData of a valid file resolves true; a log the file does not
\* provide is left as it was stored; and when no backend call failed the next
\* loadData() returns exactly the file's products, customers and sellers and
\* each log the file provides is replaced by the file's.
C6_ImportTouchesOnlyProvided ==
    [][ (last'.op = "importData" /\ ValidBackup(last'.arg))
        => /\ last'.out = "true"
           /\ ~Has(last'.arg, "customerTransactions")
              => /\ ls'[K_CUST] = ls[K_CUST]
                 /\ host'.customerTransactions = host.customerTransactions
           /\ ~Has(last'.arg, "supplierTransactions")
              => /\ ls'[K_SUPP] = ls[K_SUPP]
                 /\ host'.supplierTransactions = host.supplierTransactions
           /\ ~last'.fault
              => /\ NextData = ThreeFields(last'.arg)
                 /\ Has(last'.arg, "customerTransactions")
                    => NextCust = Lift(last'.arg.obj["customerTransactions"])
                 /\ Has(last'.arg, "supplierTransactions")
                    => NextSupp = Lift(last'.arg.obj["supplierTransactions"])
      ]_vars

\* The file with the three fields only was imported over stored logs, which
\* are still there.
C6_Witness ==
    /\ last.op = "importData" /\ last.out = "true" /\ ~last.fault
    /\ last.arg = DFile
    /\ NowData = DFile
    /\ NowCust = Arr(<<1, 2>>)
    /\ NowSupp = Arr(<<1, 2>>)

\* C7: after saves and imports only, a clearAllData() that returned true is
\* followed by loadData() returning the Default Dataset and by each
\* transactions load returning the empty sequence, in both backends.
C7_ClearThenLoadDefault ==
    [][ (last.op = "clearAllData" /\ last.out = "true" /\ last.scope)
        => /\ last'.op = "loadData" => last'.ret = DefaultDataset
           /\ last'.op \in {"loadCustomerTransactions", "loadSupplierTransactions"}
              => last'.ret = Arr(<<>>) ]_vars

\* After saves and imports only, a clear emptied the damaged browser keys and
\* the loads return the default and the empty sequences.
C7_Witness ==
    /\ env = "browser"
    /\ ~ls[L_DATA].present
    /\ last.op = "clearAllData" /\ last.out = "true" /\ last.scope
    /\ ~ls[K_DATA].present /\ ~ls[K_CUST].present /\ ~ls[K_SUPP].present
    /\ NowData = DefaultDataset
    /\ NowCust = Arr(<<>>)
    /\ NowSupp = Arr(<<>>)

\* C8: in the browser, with the legacy key perfectWoodData populated,
\* initialize() followed by loadData() returns the legacy value; a second
\* initialize() leaves every key as the first left it; and initialize()
\* leaves the three legacy keys as they were.
C8_LegacyMigration ==
    [][ /\ (env = "browser" /\ last.op = "initialize" /\ ~last.fault
            /\ ItemTruthy(ls[L_DATA]) /\ Parse(ls[L_DATA].text).ok
            /\ last'.op = "loadData" /\ ~last'.fault)
           => last'.ret = Parse(ls[L_DATA].text).val
        /\ (last.op = "initialize" /\ ~last.fault
            /\ last'.op = "initialize" /\ ~last'.fault)
           => (ls' = ls /\ host' = host /\ last'.out = "void")
        /\ last'.op = "initialize"
           => \A k \in LegacyKeys : ls'[k] = ls[k] ]_vars

\* initialize() ran over populated legacy keys and loadData() returns the
\* legacy dataset.
C8_Witness ==
    /\ env = "browser"
    /\ last.op = "initialize" /\ ~last.fault
    /\ ls[L_DATA] = Item(Stringify(DOld))
    /\ ls[K_DATA] = ls[L_DATA]
    /\ ls[K_CUST] = ls[L_CUST]
    /\ NowData = DOld

\* C9: loadData() on an empty backend returns empty products, customers and
\* sellers, whatever callers did to the values returned earlier.
C9_DefaultStaysEmpty ==
    (last.op = "loadData" /\ ~last.fault /\ ~HasData)
    => \A f \in Required : Get(last.ret, f) = ArrF(<<>>)

\* C10: whenever importData resolves true, every save it ran returned true
\* and the backend holds the imported products, customers and sellers.
C10_ImportTrueOnlyOnSuccess ==
    (last.op = "importData" /\ last.out = "true")
    => (~last.fault /\ NowData = ThreeFields(last.arg))

====
